---- MODULE Spec2Model ----
(***************************************************************************)
(* A model of the risc-v-assembler (src/src/main.rs): the line recogniser  *)
(* and encoders (parse_ld .. parse_blt), the label table, the resolver     *)
(* transform_labels, the padding loop and the writer of the object file.   *)
(*                                                                         *)
(* Representation.                                                         *)
(*  - A u32 is the set of its set bit positions, a subset of 0..31: `|` is *)
(*    union, `&` is intersection, `<<`/`>>` move the positions and drop    *)
(*    what leaves 0..31 (Rust's shifts discard the bits shifted out).      *)
(*  - A source line is the record of the tokens the regular expressions    *)
(*    of lines 13-37 split it into: the keyword (kind), the digit strings  *)
(*    of the register operands, the digit string of the immediate and the  *)
(*    label name.  Digit strings are sequences of digits 0..9.             *)
(*  - An Option is a sequence of length 0 (None) or 1 (Some).              *)
(***************************************************************************)
EXTENDS Integers, Sequences, FiniteSets, TLC

\* ------------------------------------------------------------------ bounds
MaxLines == 4        \* longest source text of the whole-program runs
MaxPad == 2          \* largest --padding value tried
MaxShort == 2        \* longest source text of the runs over every kind of line
ImmBound == 4100     \* immediates 0..ImmBound are fed to parse_ld / parse_sd
RegBound == 32       \* registers x0..xRegBound are fed to the encoders
FarBound == 1030     \* label indices 0..FarBound are fed to transform_labels

\* ------------------------------------------------------------------ u32
Word == SUBSET (0 .. 31)

Pow2(n) == 2 ^ n

\* The bits of a number 0 <= n < 2^31.
BitsOf(n) == {b \in 0 .. 30 : (n \div Pow2(b)) % 2 = 1}

\* The 32 bits of the residue of n modulo 2^32, for -2^31 <= n < 2^31.
BitsOfResidue(n) == IF n >= 0 THEN BitsOf(n) ELSE (0 .. 31) \ BitsOf(-n - 1)

Shl(w, k) == {b + k : b \in w} \cap (0 .. 31)
Shr(w, k) == {b - k : b \in w} \cap (0 .. 31)

\* The number held in bits lo..hi of w (hi - lo < 31).
RECURSIVE Field(_, _, _)
Field(w, lo, hi) ==
    IF lo > hi THEN 0
    ELSE (IF lo \in w THEN 1 ELSE 0) + 2 * Field(w, lo + 1, hi)

\* ------------------------------------------------------------------ tokens
Digit == 0 .. 9

\* The decimal digits of n >= 0, as the text of a literal.
RECURSIVE Digits(_)
Digits(n) == IF n < 10 THEN <<n>> ELSE Append(Digits(n \div 10), n % 10)

\* The number a digit string denotes (short strings only).
RECURSIVE DecVal(_)
DecVal(ds) ==
    IF Len(ds) = 0 THEN 0
    ELSE 10 * DecVal(SubSeq(ds, 1, Len(ds) - 1)) + ds[Len(ds)]

None == <<>>
Some(x) == <<x>>

Ln(k, r, n, l) == [kind |-> k, regs |-> r, num |-> n, lab |-> l]

\* What the capture group of REG, `x(\d)+`, holds after a match: a repeated
\* group keeps its last repetition, the last digit of the register number.
REG(ds) == <<ds[Len(ds)]>>

\* What the capture group of NUM, `(\d+)`, holds: the whole digit string.
NUM(ds) == ds

\* What the capture group of LAB, `(\w+)`, holds: the whole name.
LAB(name) == name

\* str::parse::<u32>: digit by digit, value * 10 + digit with overflow
\* checks; the value is kept as two 16-bit limbs.  Err on overflow of u32.
RECURSIVE parse_u32(_)
parse_u32(ds) ==
    IF Len(ds) = 0 THEN [ok |-> TRUE, hi |-> 0, lo |-> 0]
    ELSE LET p == parse_u32(SubSeq(ds, 1, Len(ds) - 1))
             l == p.lo * 10 + ds[Len(ds)]
             h == p.hi * 10 + (l \div 65536)
         IN  IF ~p.ok \/ h >= 65536
             THEN [ok |-> FALSE, hi |-> 0, lo |-> 0]
             ELSE [ok |-> TRUE, hi |-> h, lo |-> l % 65536]

U32(p) == BitsOf(p.lo) \cup Shl(BitsOf(p.hi), 16)

\* ------------------------------------------------------------------ encoders
\* The result of a parse_* function: None, Some(instruction[, label]), or a
\* panic of an unwrap inside it.
NoMatch == [tag |-> "None", inst |-> {}, label |-> None]
Matched(w, l) == [tag |-> "Some", inst |-> w, label |-> l]
Panicked == [tag |-> "Panic", inst |-> {}, label |-> None]

\* caps[k].parse::<u32>() of a register capture (one digit: never an Err).
parse_reg(ds) == U32(parse_u32(REG(ds)))

parse_ld(line) ==
    IF line.kind = "ld"
    THEN LET rd == parse_reg(line.regs[1])
             imm == parse_u32(NUM(line.num))
             rs1 == parse_reg(line.regs[2])
         IN  IF ~imm.ok THEN Panicked
             ELSE Matched(BitsOf(3) \cup Shl(rd, 7) \cup Shl(BitsOf(3), 12)
                          \cup Shl(rs1, 15) \cup Shl(U32(imm), 20), None)
    ELSE NoMatch

\* parse_sd with the mask of line 140 one bit short (0b0111_1110_0000).
parse_sd_short_mask(line) ==
    IF line.kind = "sd"
    THEN LET rs2 == parse_reg(line.regs[1])
             imm == parse_u32(NUM(line.num))
             rs1 == parse_reg(line.regs[2])
         IN  IF ~imm.ok THEN Panicked
             ELSE Matched(BitsOf(35) \cup Shl(U32(imm) \cap (0 .. 4), 7)
                          \cup Shl(BitsOf(3), 12) \cup Shl(rs1, 15)
                          \cup Shl(rs2, 20)
                          \cup Shl(U32(imm) \cap (5 .. 10), 20), None)
    ELSE NoMatch

parse_sd(line) ==
    IF line.kind = "sd"
    THEN LET rs2 == parse_reg(line.regs[1])
             imm == parse_u32(NUM(line.num))
             rs1 == parse_reg(line.regs[2])
         IN  IF ~imm.ok THEN Panicked
             ELSE Matched(BitsOf(35) \cup Shl(U32(imm) \cap (0 .. 4), 7)
                          \cup Shl(BitsOf(3), 12) \cup Shl(rs1, 15)
                          \cup Shl(rs2, 20)
                          \cup Shl(U32(imm) \cap (5 .. 11), 20), None)
    ELSE NoMatch

parse_and(line) ==
    IF line.kind = "and"
    THEN LET rd == parse_reg(line.regs[1])
             rs1 == parse_reg(line.regs[2])
             rs2 == parse_reg(line.regs[3])
         IN  Matched(BitsOf(51) \cup Shl(rd, 7) \cup Shl(BitsOf(7), 12)
                     \cup Shl(rs1, 15) \cup Shl(rs2, 20), None)
    ELSE NoMatch

parse_or(line) ==
    IF line.kind = "or"
    THEN LET rd == parse_reg(line.regs[1])
             rs1 == parse_reg(line.regs[2])
             rs2 == parse_reg(line.regs[3])
         IN  Matched(BitsOf(51) \cup Shl(rd, 7) \cup Shl(BitsOf(6), 12)
                     \cup Shl(rs1, 15) \cup Shl(rs2, 20), None)
    ELSE NoMatch

parse_add(line) ==
    IF line.kind = "add"
    THEN LET rd == parse_reg(line.regs[1])
             rs1 == parse_reg(line.regs[2])
             rs2 == parse_reg(line.regs[3])
         IN  Matched(BitsOf(51) \cup Shl(rd, 7) \cup Shl(rs1, 15)
                     \cup Shl(rs2, 20), None)
    ELSE NoMatch

\* parse_sub with rs2 shifted into the funct7 field (<< 25 for << 20).
parse_sub_rs2_shift(line) ==
    IF line.kind = "sub"
    THEN LET rd == parse_reg(line.regs[1])
             rs1 == parse_reg(line.regs[2])
             rs2 == parse_reg(line.regs[3])
         IN  Matched(BitsOf(51) \cup Shl(rd, 7) \cup Shl(rs1, 15)
                     \cup Shl(rs2, 25) \cup Shl(BitsOf(1), 30), None)
    ELSE NoMatch

parse_sub(line) ==
    IF line.kind = "sub"
    THEN LET rd == parse_reg(line.regs[1])
             rs1 == parse_reg(line.regs[2])
             rs2 == parse_reg(line.regs[3])
         IN  Matched(BitsOf(51) \cup Shl(rd, 7) \cup Shl(rs1, 15)
                     \cup Shl(rs2, 20) \cup Shl(BitsOf(1), 30), None)
    ELSE NoMatch

parse_beq(line) ==
    IF line.kind = "beq"
    THEN LET rs1 == parse_reg(line.regs[1])
             rs2 == parse_reg(line.regs[2])
         IN  Matched(BitsOf(99) \cup Shl(rs1, 15) \cup Shl(rs2, 20),
                     Some(LAB(line.lab)))
    ELSE NoMatch

parse_blt(line) ==
    IF line.kind = "blt"
    THEN LET rs1 == parse_reg(line.regs[1])
             rs2 == parse_reg(line.regs[2])
         IN  Matched(BitsOf(99) \cup Shl(BitsOf(4), 12) \cup Shl(rs1, 15)
                     \cup Shl(rs2, 20), Some(LAB(line.lab)))
    ELSE NoMatch

\* ------------------------------------------------------------------ regexes
\* The regular expressions that carry no capture of their own use.
NOP_REGEX(line) == line.kind = "nop"
LABEL_REGEX(line) == line.kind = "label"

\* `line.is_empty() || line.starts_with("//")` of the trimmed line.
IsSkipped(line) == line.kind \in {"blank", "comment"}

\* ------------------------------------------------------------------ state
VARIABLES
    src,            \* asm.lines(): the source text, a sequence of lines
    pos,            \* the line the `for` loop of main is at (1-based)
    instructions,   \* Vec<(u32, Option<String>)> of the recognition loop
    labels,         \* HashMap<String, usize>, a function on the defined names
    resolved,       \* Vec<u32>: what transform_labels returned (line 87)
    words,          \* Vec<u32>: that vector as the padding loop extends it
    padding,        \* opt.padding as read at line 89: None or Some(size)
    warned,         \* the warning of line 91 was printed
    created,        \* File::create(obj_path) has run
    obj,            \* the lines written to the object file
    pc,             \* where main is: read, pad, create, write, done, panic
    err             \* the panic that ended the run, if any

vars == <<src, pos, instructions, labels, resolved, words, padding, warned, created,
          obj, pc, err>>

NoErr == [msg |-> "", line |-> None, label |-> None]

\* ------------------------------------------------------------------ main loop
\* The body of the `for line in asm.lines()` loop, lines 59-84, as the effect
\* it has: continue, push (inst, label), insert a label, or panic.
Continue == [op |-> "continue", inst |-> {}, label |-> None, msg |-> ""]
Push(w, l) == [op |-> "push", inst |-> w, label |-> l, msg |-> ""]
Insert(n) == [op |-> "insert", inst |-> {}, label |-> Some(n), msg |-> ""]
Panic(m) == [op |-> "panic", inst |-> {}, label |-> None, msg |-> m]

Taken(r) == IF r.tag = "Panic" THEN Panic("ParseIntError")
            ELSE Push(r.inst, r.label)

\* The loop body skipping a line it does not recognise.
loop_body_skip(line) ==
    IF IsSkipped(line) THEN Continue
    ELSE IF NOP_REGEX(line) THEN Push({}, None)
    ELSE IF parse_ld(line).tag # "None" THEN Taken(parse_ld(line))
    ELSE IF parse_sd(line).tag # "None" THEN Taken(parse_sd(line))
    ELSE IF parse_and(line).tag # "None" THEN Taken(parse_and(line))
    ELSE IF parse_or(line).tag # "None" THEN Taken(parse_or(line))
    ELSE IF parse_add(line).tag # "None" THEN Taken(parse_add(line))
    ELSE IF parse_sub(line).tag # "None" THEN Taken(parse_sub(line))
    ELSE IF parse_beq(line).tag # "None" THEN Taken(parse_beq(line))
    ELSE IF parse_blt(line).tag # "None" THEN Taken(parse_blt(line))
    ELSE IF LABEL_REGEX(line) THEN Insert(LAB(line.lab))
    ELSE Continue

\* The loop body with a label line taking an instruction index of its own.
loop_body_label_index(line) ==
    IF IsSkipped(line) THEN Continue
    ELSE IF NOP_REGEX(line) THEN Push({}, None)
    ELSE IF parse_ld(line).tag # "None" THEN Taken(parse_ld(line))
    ELSE IF parse_sd(line).tag # "None" THEN Taken(parse_sd(line))
    ELSE IF parse_and(line).tag # "None" THEN Taken(parse_and(line))
    ELSE IF parse_or(line).tag # "None" THEN Taken(parse_or(line))
    ELSE IF parse_add(line).tag # "None" THEN Taken(parse_add(line))
    ELSE IF parse_sub(line).tag # "None" THEN Taken(parse_sub(line))
    ELSE IF parse_beq(line).tag # "None" THEN Taken(parse_beq(line))
    ELSE IF parse_blt(line).tag # "None" THEN Taken(parse_blt(line))
    ELSE IF LABEL_REGEX(line) THEN Push({}, None)
    ELSE Panic("Invalid Instruction")

loop_body(line) ==
    IF IsSkipped(line) THEN Continue
    ELSE IF NOP_REGEX(line) THEN Push({}, None)
    ELSE IF parse_ld(line).tag # "None" THEN Taken(parse_ld(line))
    ELSE IF parse_sd(line).tag # "None" THEN Taken(parse_sd(line))
    ELSE IF parse_and(line).tag # "None" THEN Taken(parse_and(line))
    ELSE IF parse_or(line).tag # "None" THEN Taken(parse_or(line))
    ELSE IF parse_add(line).tag # "None" THEN Taken(parse_add(line))
    ELSE IF parse_sub(line).tag # "None" THEN Taken(parse_sub(line))
    ELSE IF parse_beq(line).tag # "None" THEN Taken(parse_beq(line))
    ELSE IF parse_blt(line).tag # "None" THEN Taken(parse_blt(line))
    ELSE IF LABEL_REGEX(line) THEN Insert(LAB(line.lab))
    ELSE Panic("Invalid Instruction")

\* A table that keeps the first value of a key.
insert_first(map, key, value) ==
    [k \in DOMAIN map \cup {key} |->
        IF k \in DOMAIN map THEN map[k] ELSE value]

\* HashMap::insert: the new value replaces the old one of the same key.
insert(map, key, value) ==
    [k \in DOMAIN map \cup {key} |-> IF k = key THEN value ELSE map[k]]

ReadLine ==
    /\ pc = "read"
    /\ pos <= Len(src)
    /\ LET r == loop_body(src[pos])
       IN  /\ instructions' =
                IF r.op = "push"
                THEN Append(instructions, [inst |-> r.inst, label |-> r.label])
                ELSE instructions
           /\ labels' =
                IF r.op = "insert"
                THEN insert(labels, r.label[1], Len(instructions))
                ELSE labels
           /\ IF r.op = "panic"
              THEN /\ pc' = "panic"
                   /\ err' = [msg |-> r.msg, line |-> Some(src[pos]),
                              label |-> None]
                   /\ pos' = pos
              ELSE /\ pc' = pc
                   /\ err' = err
                   /\ pos' = pos + 1
    /\ UNCHANGED <<src, resolved, words, padding, warned, created, obj>>

\* ------------------------------------------------------------------ resolver
\* The build decides the arithmetic of `(j - i) * 4` on usize: with overflow
\* checks (debug) a negative difference panics; without them (release) it
\* wraps modulo 2^usizeBits.  A usize is held as the integer of smallest
\* magnitude in its residue class, so a negative number stands for a value
\* of 2^usizeBits minus its magnitude.
Builds == [checks : BOOLEAN, usizeBits : {32, 64}]

Ok(w) == [ok |-> TRUE, inst |-> w, msg |-> "", label |-> None]
Abort(m, l) == [ok |-> FALSE, inst |-> {}, msg |-> m, label |-> l]

\* The closure with the mask of line 256 left out.
resolve_unmasked(i, inst, label, labs, build) ==
    IF label # None
    THEN IF label[1] \in DOMAIN labs
         THEN LET j == labs[label[1]]
              IN  IF j < i /\ build.checks
                  THEN Abort("attempt to subtract with overflow", None)
                  ELSE LET m == (j - i) * 4
                       IN  IF m < 0 /\ build.usizeBits = 64
                           THEN Abort("TryFromIntError", None)
                           ELSE LET imm == BitsOfResidue(m)
                                IN  Ok(inst
                                       \cup Shl(imm, 7)
                                       \cup Shl(imm \cap (5 .. 10), 20)
                                       \cup Shr(imm \cap {11}, 4)
                                       \cup Shl(imm \cap {12}, 19))
         ELSE Abort("Invalid Label", label)
    ELSE Ok(inst)

\* The closure of the map, lines 252-267; i is the 0-based index.
resolve(i, inst, label, labs, build) ==
    IF label # None
    THEN IF label[1] \in DOMAIN labs
         THEN LET j == labs[label[1]]
              IN  IF j < i /\ build.checks
                  THEN Abort("attempt to subtract with overflow", None)
                  ELSE LET m == (j - i) * 4
                       IN  IF m < 0 /\ build.usizeBits = 64
                           THEN Abort("TryFromIntError", None)
                           ELSE LET imm == BitsOfResidue(m)
                                IN  Ok(inst
                                       \cup Shl(imm \cap (1 .. 4), 7)
                                       \cup Shl(imm \cap (5 .. 10), 20)
                                       \cup Shr(imm \cap {11}, 4)
                                       \cup Shl(imm \cap {12}, 19))
         ELSE Abort("Invalid Label", label)
    ELSE Ok(inst)

\* transform_labels: the map over the enumerated instructions, collected; the
\* first panicking element ends it.
transform_labels(instrs, labs, build) ==
    LET r == [k \in 1 .. Len(instrs) |->
                resolve(k - 1, instrs[k].inst, instrs[k].label, labs, build)]
        bad == {k \in 1 .. Len(instrs) : ~r[k].ok}
    IN  IF bad = {}
        THEN [ok |-> TRUE, words |-> [k \in 1 .. Len(instrs) |-> r[k].inst],
              msg |-> "", label |-> None]
        ELSE LET k == CHOOSE x \in bad : \A y \in bad : x <= y
             IN  [ok |-> FALSE, words |-> <<>>, msg |-> r[k].msg,
                  label |-> r[k].label]

TransformLabels ==
    /\ pc = "read"
    /\ pos > Len(src)
    /\ \E build \in Builds :
         LET t == transform_labels(instructions, labels, build)
         IN  /\ resolved' = t.words
             /\ words' = t.words
             /\ pc' = IF t.ok THEN "pad" ELSE "panic"
             /\ err' = IF t.ok THEN err
                       ELSE [msg |-> t.msg, line |-> None, label |-> t.label]
    /\ UNCHANGED <<src, pos, instructions, labels, padding, warned, created,
                   obj>>

\* ------------------------------------------------------------------ output
Zeros(n) == [k \in 1 .. n |-> {}]

\* Padding that cuts the words down to the requested size.
pad_truncate(ws, size) ==
    IF size # None /\ Len(ws) < size[1]
    THEN ws \o Zeros(size[1] - Len(ws))
    ELSE IF size # None THEN SubSeq(ws, 1, size[1]) ELSE ws

\* Lines 89-96 for the value of opt.padding.
pad(ws, size) ==
    IF size # None /\ Len(ws) < size[1]
    THEN ws \o Zeros(size[1] - Len(ws))
    ELSE ws

Padding ==
    /\ pc = "pad"
    /\ \E size \in {None} \cup {Some(n) : n \in 0 .. MaxPad} :
         /\ padding' = size
         /\ warned' = (size # None /\ Len(words) > size[1])
         /\ words' = pad(words, size)
    /\ pc' = "create"
    /\ UNCHANGED <<src, pos, instructions, labels, resolved, created, obj,
                   err>>

CreateObj ==
    /\ pc = "create"
    /\ created' = TRUE
    /\ obj' = <<>>
    /\ pc' = "write"
    /\ UNCHANGED <<src, pos, instructions, labels, resolved, words, padding,
                   warned,
                   err>>

\* format!("{:0>32b}", inst): 32 characters, the most significant bit first.
fmt_bin(w) == [k \in 1 .. 32 |-> IF (32 - k) \in w THEN 1 ELSE 0]

\* The word a line of the object file denotes.
WordOf(text) == {b \in 0 .. 31 : text[32 - b] = 1}

WriteLine ==
    /\ pc = "write"
    /\ Len(obj) < Len(words)
    /\ obj' = Append(obj, fmt_bin(words[Len(obj) + 1]))
    /\ UNCHANGED <<src, pos, instructions, labels, resolved, words, padding,
                   warned,
                   created, pc, err>>

Exit ==
    /\ pc = "write"
    /\ Len(obj) = Len(words)
    /\ pc' = "done"
    /\ UNCHANGED <<src, pos, instructions, labels, resolved, words, padding,
                   warned,
                   created, obj, err>>

Next == ReadLine \/ TransformLabels \/ Padding \/ CreateObj \/ WriteLine
        \/ Exit

\* ------------------------------------------------------------------ reading
\* What the claims say about a source text, read off the text itself.
IsInstr(line) ==
    line.kind \in {"nop", "ld", "sd", "and", "or", "add", "sub", "beq", "blt"}
IsBranch(line) == line.kind \in {"beq", "blt"}
Unrecognized(line) ==
    ~IsInstr(line) /\ line.kind \notin {"blank", "comment", "label"}

\* The number of instruction lines among the first n lines.
InstrCount(text, n) == Cardinality({k \in 1 .. n : IsInstr(text[k])})

\* The line holding the k-th instruction.
LineOfInstr(text, k) ==
    CHOOSE n \in 1 .. Len(text) : IsInstr(text[n]) /\ InstrCount(text, n) = k

\* The names defined among the first n lines, and the last such definition.
Defined(text, n) == {text[k].lab : k \in {x \in 1 .. n : text[x].kind = "label"}}
LastDef(text, n, name) ==
    CHOOSE k \in 1 .. n :
        /\ text[k].kind = "label" /\ text[k].lab = name
        /\ \A x \in (k + 1) .. n : ~(text[x].kind = "label" /\ text[x].lab = name)

\* The 13-bit immediate of a B-type word, from its four bit groups.
BImm(w) == 2 * Field(w, 8, 11) + 32 * Field(w, 25, 30)
           + 2048 * Field(w, 7, 7) + 4096 * Field(w, 31, 31)

\* x in 13-bit two's complement.
Twos13(x) == x % 8192

ReadDone == pc \in {"pad", "create", "write", "done"}
    \/ (pc = "panic" /\ pos > Len(src))

\* ------------------------------------------------------------------ inputs
Blank == Ln("blank", <<>>, <<>>, "")
Comment == Ln("comment", <<>>, <<>>, "")
Bad == Ln("bad", <<>>, <<>>, "")
Nop == Ln("nop", <<>>, <<>>, "")
Ld(rd, imm, rs1) == Ln("ld", <<rd, rs1>>, imm, "")
Sd(rs2, imm, rs1) == Ln("sd", <<rs2, rs1>>, imm, "")
Alu(k, rd, rs1, rs2) == Ln(k, <<rd, rs1, rs2>>, <<>>, "")
Branch(k, rs1, rs2, l) == Ln(k, <<rs1, rs2>>, <<>>, l)
LabelDef(l) == Ln("label", <<>>, <<>>, l)

\* The lines of the whole-program runs.
Pool ==
    { Comment, Bad,
      Alu("add", <<1>>, <<2>>, <<3>>),
      Ld(<<5>>, <<4, 2, 9, 4, 9, 6, 7, 2, 9, 6>>, <<6>>),
      LabelDef("L"),
      Branch("beq", <<1>>, <<2>>, "L"),
      Branch("blt", <<5>>, <<6>>, "M") }

Sources == UNION {[1 .. n -> Pool] : n \in 0 .. MaxLines}

Start(text) ==
    /\ src = text
    /\ pos = 1
    /\ instructions = <<>>
    /\ labels = <<>>
    /\ resolved = <<>>
    /\ words = <<>>
    /\ padding = None
    /\ warned = FALSE
    /\ created = FALSE
    /\ obj = <<>>
    /\ pc = "read"
    /\ err = NoErr

Init == \E text \in Sources : Start(text)

Spec == Init /\ [][Next]_vars

\* Short sources over every kind of line, with the operands of the tests.
KindPool ==
    { Blank, Comment, Bad, Nop,
      Ld(<<5>>, <<4, 0>>, <<6>>), Sd(<<5>>, <<4, 0>>, <<6>>),
      Alu("and", <<5>>, <<6>>, <<7>>), Alu("or", <<5>>, <<6>>, <<7>>),
      Alu("add", <<5>>, <<6>>, <<7>>), Alu("sub", <<5>>, <<6>>, <<7>>),
      LabelDef("Label"),
      Branch("beq", <<5>>, <<6>>, "Label"),
      Branch("blt", <<5>>, <<6>>, "Label") }

InitKinds ==
    \E text \in UNION {[1 .. n -> KindPool] : n \in 0 .. MaxShort} :
        Start(text)

SpecKinds == InitKinds /\ [][Next]_vars


\* Sources that exercise the encoders: every immediate 0..ImmBound and some
\* wider literals for ld and sd, every register x0..xRegBound in each operand
\* position, and each branch before and after the definition of its label.
RegToks == {Digits(n) : n \in 0 .. RegBound} \cup {<<0, 7>>}
RegSample == {<<5>>, <<3, 1>>}
WideLiterals ==
    { <<0, 0, 4, 0>>, <<6, 5, 5, 3, 5>>, <<1, 0, 4, 8, 5, 7, 6>>,
      <<4, 2, 9, 4, 9, 6, 7, 2, 9, 5>>, <<4, 2, 9, 4, 9, 6, 7, 2, 9, 6>>,
      <<9, 9, 9, 9, 9, 9, 9, 9, 9, 9, 9>> }
Triples ==
    (RegToks \X RegSample \X RegSample) \cup (RegSample \X RegToks \X RegSample)
    \cup (RegSample \X RegSample \X RegToks)
Pairs == (RegToks \X RegSample) \cup (RegSample \X RegToks)

EncLines ==
    {Nop}
    \cup {Ld(<<5>>, Digits(n), <<6>>) : n \in 0 .. ImmBound}
    \cup {Sd(<<5>>, Digits(n), <<6>>) : n \in 0 .. ImmBound}
    \cup {Ld(<<5>>, ds, <<6>>) : ds \in WideLiterals}
    \cup {Sd(<<5>>, ds, <<6>>) : ds \in WideLiterals}
    \cup {Ld(p[1], <<4, 0>>, p[2]) : p \in Pairs}
    \cup {Sd(p[1], <<4, 0>>, p[2]) : p \in Pairs}
    \cup {Alu(k, t[1], t[2], t[3]) : k \in {"and", "or", "add", "sub"}, t \in Triples}

EncBranches ==
    {Branch(k, p[1], p[2], "Label") : k \in {"beq", "blt"}, p \in Pairs}

EncSources ==
    {<<line>> : line \in EncLines}
    \cup {<<b, LabelDef("Label")>> : b \in EncBranches}
    \cup {<<LabelDef("Label"), b>> : b \in EncBranches}
    \cup {<<b, Nop, Nop, LabelDef("Label")>> : b \in EncBranches}

InitEnc == \E text \in EncSources : Start(text)

\* The words the encoders and the resolver give, before padding and writing.
NextEnc == ReadLine \/ TransformLabels

SpecEnc == InitEnc /\ [][NextEnc]_vars

\* transform_labels applied as the tests do, to instructions and a table
\* built by hand: the label index is any of 0..3 or of the indices around
\* the end of the 13-bit range, up to FarBound.
Partial == {[inst |-> loop_body(line).inst, label |-> loop_body(line).label] :
              line \in {x \in KindPool : IsInstr(x)}}
FarIndices == {j \in 0 .. FarBound : j < 4 \/ j > 1020}

InitResolve ==
    /\ src = <<>>
    /\ pos = 1
    /\ instructions \in UNION {[1 .. n -> Partial] : n \in 1 .. MaxShort}
    /\ labels \in {<<>>} \cup {[n \in {"Label"} |-> j] : j \in FarIndices}
    /\ resolved = <<>>
    /\ words = <<>>
    /\ padding = None
    /\ warned = FALSE
    /\ created = FALSE
    /\ obj = <<>>
    /\ pc = "read"
    /\ err = NoErr

SpecResolve == InitResolve /\ [][TransformLabels]_vars

\* ------------------------------------------------------------------ C1
\* C1: whenever every branch of the program names a defined label within
\* the 13-bit range, forward or backward, transform_labels does not abort and
\* the immediate read back from each resolved branch word is (j - i) * 4 in
\* 13-bit two's complement.
C1_BranchOffsets ==
    (/\ ReadDone
     /\ \A k \in 1 .. Len(instructions) :
          instructions[k].label # None =>
            /\ instructions[k].label[1] \in DOMAIN labels
            /\ (labels[instructions[k].label[1]] - (k - 1)) * 4 \in -4096 .. 4094)
    => /\ pc # "panic"
       /\ \A k \in 1 .. Len(instructions) :
            instructions[k].label # None =>
              BImm(resolved[k])
                = Twos13((labels[instructions[k].label[1]] - (k - 1)) * 4)

\* ------------------------------------------------------------------ C5
\* C5: a source with a line that matches no grammar never gets past that
\* line: the loop stops there with the Invalid Instruction panic naming the
\* line, the resolver and the writer never run, and no output line exists.
C5_UnrecognizedAborts ==
    (\E k \in 1 .. Len(src) : Unrecognized(src[k])) =>
      /\ pc \in {"read", "panic"}
      /\ pos <= Len(src)
      /\ \A k \in 1 .. (pos - 1) : ~Unrecognized(src[k])
      /\ (pc = "panic" /\ Unrecognized(src[pos])) =>
            err = [msg |-> "Invalid Instruction", line |-> Some(src[pos]),
                   label |-> None]
      /\ (pc = "read" /\ Unrecognized(src[pos])) =>
            loop_body(src[pos]).op = "panic"
      /\ ~created /\ obj = <<>> /\ words = <<>>

C5_Witness ==
    /\ pc = "panic"
    /\ err.msg = "Invalid Instruction"
    /\ pos = 3
    /\ Len(src) = 4
    /\ Len(instructions) = 2
    /\ IsInstr(src[4])

\* ------------------------------------------------------------------ C6
\* C6: once the lines are read, a branch whose label is not in the table
\* makes the run end in the Invalid Label panic, with no output written.
C6_UndefinedLabelAborts ==
    (/\ ReadDone
     /\ \E k \in 1 .. Len(instructions) :
          /\ instructions[k].label # None
          /\ instructions[k].label[1] \notin DOMAIN labels)
    => /\ pc = "panic"
       /\ err.msg = "Invalid Label"
       /\ ~created /\ obj = <<>>

\* ------------------------------------------------------------------ C7
\* C7: after any prefix of the lines, `instructions` holds one entry per
\* instruction line of the prefix, the k-th entry being that of the k-th
\* instruction line, and none for blank, comment or label lines; a run that
\* ends without padding has written one word per instruction line, in order.
C7_DenseIndices ==
    LET done == pos - 1
    IN  /\ Len(instructions) = InstrCount(src, done)
        /\ \A k \in 1 .. Len(instructions) :
             LET line == src[LineOfInstr(src, k)]
             IN  /\ Field(instructions[k].inst, 0, 6)
                      = (CASE line.kind = "nop" -> 0
                           [] line.kind = "ld" -> 3
                           [] line.kind = "sd" -> 35
                           [] line.kind \in {"beq", "blt"} -> 99
                           [] OTHER -> 51)
                 /\ (instructions[k].label # None) = IsBranch(line)
        /\ (pc = "done" /\ padding = None) =>
             /\ Len(obj) = InstrCount(src, Len(src))
             /\ \A k \in 1 .. Len(obj) :
                  Field(WordOf(obj[k]), 0, 6) = Field(instructions[k].inst, 0, 6)
                  /\ Field(WordOf(obj[k]), 12, 24)
                       = Field(instructions[k].inst, 12, 24)

C7_Witness ==
    /\ pc = "done"
    /\ padding = None
    /\ Len(src) = 2
    /\ src[1].kind = "label"
    /\ src[2].kind = "sub"
    /\ Len(obj) = 1

\* ------------------------------------------------------------------ C8
\* C8: a run with --padding N on n resolved words ends with the n words
\* followed by N - n zero words when N >= n, and with the warning and the n
\* words alone when N < n.
C8_Padding ==
    (pc = "done" /\ padding # None) =>
      LET N == padding[1]
          n == Len(resolved)
      IN  /\ Len(obj) = IF N >= n THEN N ELSE n
          /\ \A k \in 1 .. n : WordOf(obj[k]) = resolved[k]
          /\ \A k \in (n + 1) .. N : WordOf(obj[k]) = {}
          /\ N < n => warned

C8_Witness ==
    /\ pc = "done"
    /\ padding = Some(2)
    /\ Len(resolved) = 3
    /\ warned
    /\ Len(obj) = 3

\* ------------------------------------------------------------------ C9
\* C9: the table holds, for every name defined so far, the instruction count
\* at its last definition; nothing is looked up before the last line is read;
\* a resolved branch carries the offset to the last definition of its label,
\* wherever the branch stands; the table is the same after resolution.
C9_LastDefinitionWins ==
    LET done == pos - 1
    IN  /\ DOMAIN labels = Defined(src, done)
        /\ \A name \in DOMAIN labels :
             labels[name] = InstrCount(src, LastDef(src, done, name))
        /\ (resolved # <<>> \/ err.msg \in {"Invalid Label", "TryFromIntError",
                "attempt to subtract with overflow"}) => pos > Len(src)
        /\ pc \in {"pad", "create", "write", "done"} =>
             \A k \in 1 .. Len(instructions) :
               instructions[k].label # None =>
                 LET name == src[LineOfInstr(src, k)].lab
                     j == InstrCount(src, LastDef(src, Len(src), name))
                 IN  BImm(resolved[k]) = Twos13((j - (k - 1)) * 4)

C9_Witness ==
    /\ pc = "done"
    /\ Len(src) = 4
    /\ src[1].kind = "label" /\ src[1].lab = "L"
    /\ src[2].kind = "beq" /\ src[2].lab = "L"
    /\ src[3].kind = "add"
    /\ src[4].kind = "label" /\ src[4].lab = "L"
    /\ BImm(resolved[1]) = 8


\* ------------------------------------------------------------------ C2
\* The words of the run so far: the resolved ones once there are any, the
\* partially encoded ones before.
Emitted ==
    IF resolved # <<>> THEN resolved
    ELSE [k \in 1 .. Len(instructions) |-> instructions[k].inst]

\* The bit fields of the register operands of a line, in textual order.
RegFields(line) ==
    CASE line.kind \in {"and", "or", "add", "sub"} -> <<7, 15, 20>>
      [] line.kind = "ld" -> <<7, 15>>
      [] line.kind = "sd" -> <<20, 15>>
      [] OTHER -> <<15, 20>>

\* C2: every register operand x<digits> with value n in 0..31 puts n in its
\* 5-bit field of the word of its line.
C2_RegisterFields ==
    \A k \in 1 .. Len(Emitted) :
      LET line == src[LineOfInstr(src, k)]
      IN  \A r \in 1 .. Len(line.regs) :
            DecVal(line.regs[r]) \in 0 .. 31 =>
              Field(Emitted[k], RegFields(line)[r], RegFields(line)[r] + 4)
                = DecVal(line.regs[r])

\* ------------------------------------------------------------------ C3
Opcode(kind) ==
    CASE kind = "nop" -> 0
      [] kind = "ld" -> 3
      [] kind = "sd" -> 35
      [] kind \in {"and", "or", "add", "sub"} -> 51
      [] kind \in {"beq", "blt"} -> 99

Funct3(kind) ==
    CASE kind \in {"ld", "sd"} -> 3
      [] kind = "and" -> 7
      [] kind = "or" -> 6
      [] kind = "blt" -> 4
      [] OTHER -> 0

\* C3: whatever the operands, the word of a line has the opcode and funct3
\* of its mnemonic, an and/or/add/sub word has funct7 0000000 or 0100000
\* (sub), and the word of nop is zero.
C3_FixedBits ==
    \A k \in 1 .. Len(Emitted) :
      LET line == src[LineOfInstr(src, k)]
          w == Emitted[k]
      IN  /\ Field(w, 0, 6) = Opcode(line.kind)
          /\ Field(w, 12, 14) = Funct3(line.kind)
          /\ line.kind \in {"and", "or", "add"} => Field(w, 25, 31) = 0
          /\ line.kind = "sub" => Field(w, 25, 31) = 32
          /\ line.kind = "nop" => w = {}

C3_Witness ==
    /\ resolved # <<>>
    /\ src[1].kind = "sub"
    /\ src[1].regs = <<<<3, 1>>, <<3, 2>>, <<5>>>>
    /\ Field(resolved[1], 25, 31) = 32

\* ------------------------------------------------------------------ C4
\* C4: for an immediate 0..4095, the ld word holds it in bits 20-31 and the
\* sd word holds its low 5 bits in bits 7-11 and its high 7 bits in bits
\* 25-31; the other bits of the word are those of the same line written
\* with the immediate 0.
C4_Immediates ==
    \A k \in 1 .. Len(Emitted) :
      LET line == src[LineOfInstr(src, k)]
          w == Emitted[k]
          imm == DecVal(line.num)
          zero == loop_body(Ln(line.kind, line.regs, <<0>>, line.lab)).inst
      IN  (line.kind \in {"ld", "sd"} /\ Len(line.num) <= 4 /\ imm <= 4095) =>
            IF line.kind = "ld"
            THEN /\ Field(w, 20, 31) = imm
                 /\ w \ (20 .. 31) = zero
            ELSE /\ Field(w, 7, 11) = imm % 32
                 /\ Field(w, 25, 31) = imm \div 32
                 /\ Field(w, 7, 11) + 32 * Field(w, 25, 31) = imm
                 /\ w \ ((7 .. 11) \cup (25 .. 31)) = zero

C4_Witness ==
    /\ resolved # <<>>
    /\ src[1] = Sd(<<5>>, <<4, 0, 9, 5>>, <<6>>)
    /\ Field(resolved[1], 7, 11) = 31
    /\ Field(resolved[1], 25, 31) = 127

\* ------------------------------------------------------------------ C10
\* C10: transform_labels returns as many words as it was given; a word
\* without a label comes back as it was, in its place; a branch word keeps
\* its bits 0-6 and 12-24 whatever the distance to its target.
C10_ResolverFrame ==
    pc = "pad" =>
      /\ Len(resolved) = Len(instructions)
      /\ \A k \in 1 .. Len(instructions) :
           IF instructions[k].label = None
           THEN resolved[k] = instructions[k].inst
           ELSE /\ resolved[k] \cap ((0 .. 6) \cup (12 .. 24))
                     = instructions[k].inst \cap ((0 .. 6) \cup (12 .. 24))
                /\ instructions[k].inst \subseteq resolved[k]

C10_Witness ==
    /\ pc = "pad"
    /\ Len(instructions) = 2
    /\ instructions[1].label = None
    /\ instructions[1].inst # {}
    /\ instructions[2].label # None
    /\ labels["Label"] > 1025
    /\ resolved[2] # instructions[2].inst

====
